---- MODULE Spec2Model ----
(***************************************************************************)
(* MITRE ATT&CK mapping tool: the upload pipeline of mitre_mapping_app.py  *)
(* (main and the functions it calls) and the taxonomy / rendering helpers  *)
(* of heatmap_renderer.py and navigator_visualization.py.                  *)
(*                                                                         *)
(* Text is a sequence of one-character strings, so that the character      *)
(* tests of the code ('.' in tech_id, '-' in technique, split, strip) are  *)
(* computed and not assumed.  A list is a sequence; a raised exception is  *)
(* a record [raised |-> TRUE, ...] returned in place of the value.         *)
(*                                                                         *)
(* A session is a sequence of passes of main(): every run of the script     *)
(* starts with fresh locals and an empty page, and only the entries of the  *)
(* st.cache_resource / st.cache_data decorators live from pass to pass.     *)
(***************************************************************************)
EXTENDS Integers, Sequences, FiniteSets, TLC

VARIABLES
  pc,                 \* position of main() in its top-to-bottom pass
  model,              \* load_model() result: "None" or "model"
  attack_data,        \* taxonomy document; NoDoc models {} / no document
  mitre_techniques,   \* list returned by load_mitre_data
  mitre_embeddings,   \* get_mitre_embeddings result: [none |-> TRUE] or a tensor
  df,                 \* uploaded table: [columns, nrows]
  required_col,       \* main(): the description column, or "None"
  tactics,            \* main(): per-record mapped tactic strings
  techniques,         \* main(): per-record mapped technique labels
  references,         \* main(): per-record reference URLs
  all_tactics_lists,  \* main(): per-record tactic lists
  techniques_count,   \* the coverage tally (dict id -> count)
  layer,              \* create_navigator_layer result
  sorted_tactics,     \* render_attack_matrix: ordered tactics
  techniques_by_tactic, \* render_attack_matrix: grouping tactic id -> techniques
  outputs,            \* what the run has put on the page (st.* calls)
  fn,                 \* name of the function last applied (function-level specs)
  result,             \* its return value
  cache,              \* st.cache_resource / st.cache_data entries of the session
  uploads,            \* number of files handed to main() so far in the session
  description         \* map_to_mitre's argument (function-level specification)

vars == << pc, model, attack_data, mitre_techniques, mitre_embeddings, df,
           required_col, tactics, techniques, references, all_tactics_lists,
           techniques_count, layer, sorted_tactics, techniques_by_tactic,
           outputs, fn, result, cache, uploads, description >>

----------------------------------------------------------------------------
(* Bounds of the model.                                                    *)

MaxObjs == 3        \* objects in a taxonomy document
MaxRows == 2        \* records in an uploaded table
MaxCount == 6       \* largest count in a tally handed to the colour function
MaxUploads == 2     \* files uploaded in one session

----------------------------------------------------------------------------
(* Text.                                                                   *)

s_NA == <<"N", "/", "A">>
s_Error == <<"E", "r", "r", "o", "r">>
s_empty == << >>

Contains(s, c) == \E i \in 1..Len(s) : s[i] = c

\* s.split(c)[0]: the text before the first c, all of s when c is absent
SplitFirst(s, c) ==
  IF Contains(s, c)
    THEN LET i == CHOOSE k \in 1..Len(s) :
                    s[k] = c /\ \A j \in 1..(k - 1) : s[j] # c
         IN  SubSeq(s, 1, i - 1)
    ELSE s

\* s.strip(): leading and trailing blanks removed
Strip(s) ==
  LET keep == {i \in 1..Len(s) : s[i] # " "}
  IN  IF keep = {} THEN << >>
      ELSE LET a == CHOOSE i \in keep : \A j \in keep : i <= j
               b == CHOOSE i \in keep : \A j \in keep : j <= i
           IN  SubSeq(s, a, b)

\* ', '.join(parts)
RECURSIVE JoinComma(_)
JoinComma(parts) ==
  IF Len(parts) = 0 THEN << >>
  ELSE IF Len(parts) = 1 THEN parts[1]
  ELSE parts[1] \o <<",", " ">> \o JoinComma(Tail(parts))

SeqMap(f(_), s) == [i \in 1..Len(s) |-> f(s[i])]

RECURSIVE SeqFilter(_, _)
SeqFilter(s, keep) ==
  IF s = << >> THEN << >>
  ELSE IF Head(s) \in keep THEN <<Head(s)>> \o SeqFilter(Tail(s), keep)
  ELSE SeqFilter(Tail(s), keep)

Range(s) == {s[i] : i \in 1..Len(s)}

Flatten(ss) == LET RECURSIVE F(_)
                   F(t) == IF t = << >> THEN << >> ELSE Head(t) \o F(Tail(t))
               IN  F(ss)

(* A Python dict keeps its keys in insertion order: a sequence of           *)
(* <<key, value>> pairs with pairwise different keys.                      *)
DictKeys(d) == {d[i][1] : i \in 1..Len(d)}

DictValues(d) == {d[i][2] : i \in 1..Len(d)}

\* d.get(k, default)
DictGet(d, k, default) ==
  IF k \in DictKeys(d)
    THEN LET i == CHOOSE j \in 1..Len(d) : d[j][1] = k IN d[i][2]
    ELSE default

\* d[k] = v
DictPut(d, k, v) ==
  IF k \in DictKeys(d)
    THEN [i \in 1..Len(d) |-> IF d[i][1] = k THEN <<k, v>> ELSE d[i]]
    ELSE Append(d, <<k, v>>)

\* max(xs)
Max(S) == CHOOSE x \in S : \A y \in S : y <= x

\* sum(d.values())
RECURSIVE DictSum(_)
DictSum(d) == IF d = << >> THEN 0 ELSE Head(d)[2] + DictSum(Tail(d))

----------------------------------------------------------------------------
(* The standard kill-chain order table.                                    *)

kill_chain_order ==
  << <<"r", "e", "c", "o", "n", "n", "a", "i", "s", "s", "a", "n", "c", "e">>,
     <<"r", "e", "s", "o", "u", "r", "c", "e", "-", "d", "e", "v", "e", "l", "o", "p", "m", "e", "n", "t">>,
     <<"i", "n", "i", "t", "i", "a", "l", "-", "a", "c", "c", "e", "s", "s">>,
     <<"e", "x", "e", "c", "u", "t", "i", "o", "n">>,
     <<"p", "e", "r", "s", "i", "s", "t", "e", "n", "c", "e">>,
     <<"p", "r", "i", "v", "i", "l", "e", "g", "e", "-", "e", "s", "c", "a", "l", "a", "t", "i", "o", "n">>,
     <<"d", "e", "f", "e", "n", "s", "e", "-", "e", "v", "a", "s", "i", "o", "n">>,
     <<"c", "r", "e", "d", "e", "n", "t", "i", "a", "l", "-", "a", "c", "c", "e", "s", "s">>,
     <<"d", "i", "s", "c", "o", "v", "e", "r", "y">>,
     <<"l", "a", "t", "e", "r", "a", "l", "-", "m", "o", "v", "e", "m", "e", "n", "t">>,
     <<"c", "o", "l", "l", "e", "c", "t", "i", "o", "n">>,
     <<"c", "o", "m", "m", "a", "n", "d", "-", "a", "n", "d", "-", "c", "o", "n", "t", "r", "o", "l">>,
     <<"e", "x", "f", "i", "l", "t", "r", "a", "t", "i", "o", "n">>,
     <<"i", "m", "p", "a", "c", "t">> >>

----------------------------------------------------------------------------
(* Taxonomy documents.  An object of attack_data['objects'] carries the    *)
(* keys the code reads: type, external_references (absent, or a list of    *)
(* references whose external_id may be absent), name, description,         *)
(* x_mitre_shortname and kill_chain_phases (the phase_name of each phase). *)

s_T1059 == <<"T", "1", "0", "5", "9">>
s_T1566 == <<"T", "1", "5", "6", "6">>
s_T1059_001 == <<"T", "1", "0", "5", "9", ".", "0", "0", "1">>
s_T_9 == <<"T", "-", "9">>
s_TA0043 == <<"T", "A", "0", "0", "4", "3">>
s_TA0002 == <<"T", "A", "0", "0", "0", "2">>
s_TA0099 == <<"T", "A", "0", "0", "9", "9">>
s_TA0040 == <<"T", "A", "0", "0", "4", "0">>
s_TA9999 == <<"T", "A", "9", "9", "9", "9">>
s_Cmd_Line == <<"C", "m", "d", "-", "L", "i", "n", "e">>
s_Phishing == <<"P", "h", "i", "s", "h", "i", "n", "g">>
s_PowerShell == <<"P", "o", "w", "e", "r", "S", "h", "e", "l", "l">>
s_Unnamed == <<"U", "n", "n", "a", "m", "e", "d">>
s_Broken == <<"B", "r", "o", "k", "e", "n">>
s_Dash == <<"D", "a", "s", "h">>
s_Reconnaissance == <<"R", "e", "c", "o", "n", "n", "a", "i", "s", "s", "a", "n", "c", "e">>
s_Execution == <<"E", "x", "e", "c", "u", "t", "i", "o", "n">>
s_Execution_B == <<"E", "x", "e", "c", "u", "t", "i", "o", "n", " ", "B">>
s_Custom == <<"C", "u", "s", "t", "o", "m">>
s_reconnaissance == <<"r", "e", "c", "o", "n", "n", "a", "i", "s", "s", "a", "n", "c", "e">>
s_execution == <<"e", "x", "e", "c", "u", "t", "i", "o", "n">>
s_impact == <<"i", "m", "p", "a", "c", "t">>
s_custom == <<"c", "u", "s", "t", "o", "m">>
s_url1 == <<"u", "1">>
s_url2 == <<"u", "2">>
s_url3 == <<"u", "3">>
s_url4 == <<"u", "4">>

Ref(id, url) == [has_id |-> TRUE, external_id |-> id, url |-> url]

TacticObj(id, name, shortname) ==
  [type |-> "x-mitre-tactic", has_refs |-> TRUE, refs |-> <<Ref(id, s_empty)>>,
   name |-> name, description |-> s_empty, x_mitre_shortname |-> shortname,
   kill_chain_phases |-> << >>]

TechniqueObj(id, url, name, phases) ==
  [type |-> "attack-pattern", has_refs |-> TRUE, refs |-> <<Ref(id, url)>>,
   name |-> name, description |-> name, x_mitre_shortname |-> s_empty,
   kill_chain_phases |-> phases]

\* an attack-pattern that has no external_references key
TechniqueNoRefs(name, phases) ==
  [type |-> "attack-pattern", has_refs |-> FALSE, refs |-> << >>,
   name |-> name, description |-> name, x_mitre_shortname |-> s_empty,
   kill_chain_phases |-> phases]

\* an attack-pattern whose external_references is the empty list
TechniqueEmptyRefs(name, phases) ==
  [type |-> "attack-pattern", has_refs |-> TRUE, refs |-> << >>,
   name |-> name, description |-> name, x_mitre_shortname |-> s_empty,
   kill_chain_phases |-> phases]

TacRecon == TacticObj(s_TA0043, s_Reconnaissance, s_reconnaissance)
TacExec == TacticObj(s_TA0002, s_Execution, s_execution)
\* a second tactic object with the shortname of TacExec
TacExecB == TacticObj(s_TA0099, s_Execution_B, s_execution)
\* a tactic whose display name is spelled like its shortname
TacImpact == TacticObj(s_TA0040, s_impact, s_impact)
\* a tactic whose shortname is not in the kill-chain table
TacCustom == TacticObj(s_TA9999, s_Custom, s_custom)

TechCmd == TechniqueObj(s_T1059, s_url1, s_Cmd_Line, <<s_execution>>)
TechPhish == TechniqueObj(s_T1566, s_url2, s_Phishing, <<s_impact, s_execution>>)
\* a sub-technique: its id contains a dot
TechSub == TechniqueObj(s_T1059_001, s_url3, s_PowerShell, <<s_impact>>)
TechNoId == TechniqueNoRefs(s_Unnamed, <<s_impact>>)
\* an entry whose id contains the label separator character
TechDash == TechniqueObj(s_T_9, s_url4, s_Dash, <<s_execution>>)

ObjectPool ==
  << TacRecon, TacExec, TacExecB, TacImpact, TacCustom,
     TechCmd, TechPhish, TechSub, TechNoId, TechDash >>

\* sequences of pairwise different pool objects, at most n long, in any order
RECURSIVE ObjectSeqs(_)
ObjectSeqs(n) ==
  IF n = 0 THEN { << >> }
  ELSE LET shorter == ObjectSeqs(n - 1)
       IN  shorter \cup
           { Append(s, ObjectPool[i]) :
               <<s, i>> \in { <<t, j>> \in shorter \X (1..Len(ObjectPool)) :
                                Len(t) = n - 1 /\ ObjectPool[j] \notin Range(t) } }

\* the same, in the order of the pool only
OrderedObjectSeqs(n) ==
  { SeqFilter(ObjectPool, S) :
      S \in { T \in SUBSET Range(ObjectPool) : Cardinality(T) <= n } }

AllDocs == { [fetched |-> TRUE, objects |-> s] : s \in ObjectSeqs(MaxObjs) }

OrderedDocs == { [fetched |-> TRUE, objects |-> s] : s \in OrderedObjectSeqs(MaxObjs) }

\* requests.get / response.json raised: there is no document
NoDoc == [fetched |-> FALSE, objects |-> << >>]

\* an object of unexpected shape: indexing its external_references raises
TechEmptyRefs == TechniqueEmptyRefs(s_Broken, <<s_execution>>)

\* documents holding the object of unexpected shape, last or first
MalformedDocs ==
  { [fetched |-> TRUE, objects |-> Append(s, TechEmptyRefs)] :
      s \in OrderedObjectSeqs(MaxObjs - 1) } \cup
  { [fetched |-> TRUE, objects |-> <<TechEmptyRefs>> \o s] :
      s \in OrderedObjectSeqs(MaxObjs - 1) }

----------------------------------------------------------------------------
(* Taxonomy loader.                                                        *)

\* obj.get('external_references', [{}])[0]; indexing an empty list raises
RefsOf(obj) == IF obj.has_refs THEN obj.refs
               ELSE << [has_id |-> FALSE, external_id |-> s_empty, url |-> s_empty] >>

RaisesIndexError(obj) == RefsOf(obj) = << >>

\* obj.get('external_references', [{}])[0].get('external_id', 'N/A')
ExternalId(obj) ==
  LET r == RefsOf(obj)[1] IN IF r.has_id THEN r.external_id ELSE s_NA

\* obj.get('external_references', [{}])[0].get('url', '')
ExternalUrl(obj) == RefsOf(obj)[1].url

IsTactic(obj) == obj.type = "x-mitre-tactic"

IsAttackPattern(obj) == obj.type = "attack-pattern"

\* the loader without its sub-technique filter
IsSubTechniqueNever(obj) == FALSE

\* if '.' in tech_id: continue
IsSubTechnique(obj) == Contains(ExternalId(obj), ".")

AppTechnique(obj) ==
  [id |-> ExternalId(obj), name |-> obj.name, description |-> obj.description,
   tactic |-> JoinComma(obj.kill_chain_phases),
   tactics_list |-> obj.kill_chain_phases, url |-> ExternalUrl(obj)]

RECURSIVE AppTechniqueList(_)
AppTechniqueList(objs) ==
  IF objs = << >> THEN << >>
  ELSE IF IsAttackPattern(Head(objs)) /\ ~IsSubTechnique(Head(objs))
    THEN <<AppTechnique(Head(objs))>> \o AppTechniqueList(Tail(objs))
    ELSE AppTechniqueList(Tail(objs))

\* a loader that passes over the objects it cannot walk instead of failing
load_mitre_data_skipping(doc) ==
  IF ~doc.fetched
    THEN [failed |-> TRUE, techniques |-> << >>, attack_data |-> NoDoc]
    ELSE [failed |-> FALSE,
          techniques |->
            AppTechniqueList(SelectSeq(doc.objects,
                                       LAMBDA obj : ~RaisesIndexError(obj))),
          attack_data |-> doc]

\* mitre_mapping_app.load_mitre_data: (techniques, attack_data), or the empty
\* collections when the fetch or the walk over the objects raised
load_mitre_data(doc) ==
  IF ~doc.fetched
       \/ \E i \in 1..Len(doc.objects) :
            /\ IsTactic(doc.objects[i]) \/ IsAttackPattern(doc.objects[i])
            /\ RaisesIndexError(doc.objects[i])
    THEN [failed |-> TRUE, techniques |-> << >>, attack_data |-> NoDoc]
    ELSE [failed |-> FALSE, techniques |-> AppTechniqueList(doc.objects),
          attack_data |-> doc]

TacticData(obj) ==
  [id |-> ExternalId(obj), name |-> obj.name, shortname |-> obj.x_mitre_shortname]

\* tactics_by_shortname[shortname] = tactic_data, a later object replacing an earlier
TacticsByShortname(objs) ==
  LET idx == {i \in 1..Len(objs) : IsTactic(objs[i])}
      names == {objs[i].x_mitre_shortname : i \in idx}
  IN  [n \in names |->
         LET last == Max({i \in idx : objs[i].x_mitre_shortname = n})
         IN  TacticData(objs[last])]

\* the tactics as list(tactics_by_shortname.values()), the order table unused
SortByKillChainUnused(order, by_shortname) ==
  LET RECURSIVE AsSeq(_)
      AsSeq(S) == IF S = {} THEN << >>
                  ELSE LET x == CHOOSE y \in S : TRUE
                       IN  <<by_shortname[x]>> \o AsSeq(S \ {x})
  IN  AsSeq(DOMAIN by_shortname)

\* for phase in kill_chain_order: if phase in tactics_by_shortname: append
RECURSIVE SortByKillChain(_, _)
SortByKillChain(order, by_shortname) ==
  IF order = << >> THEN << >>
  ELSE IF Head(order) \in DOMAIN by_shortname
    THEN <<by_shortname[Head(order)]>> \o SortByKillChain(Tail(order), by_shortname)
    ELSE SortByKillChain(Tail(order), by_shortname)

\* mitre_mapping_app.load_tactics_data
load_tactics_data(doc) ==
  SortByKillChain(kill_chain_order, TacticsByShortname(doc.objects))

\* navigator_visualization.load_tactics_data
nav_load_tactics_data(doc) ==
  SortByKillChain(kill_chain_order, TacticsByShortname(doc.objects))

----------------------------------------------------------------------------
(* Grouping of techniques by tactic.                                       *)

OrgTechnique(obj) ==
  [id |-> ExternalId(obj), name |-> obj.name, description |-> obj.description,
   tactics |-> obj.kill_chain_phases]

\* if phase_name == tactic['name']
PhaseMatches(phase_name, tactic) == phase_name = tactic.name

\* the appends of one object, in the order the loops make them:
\* for phase in kill_chain_phases: for tactic in sorted_tactics
AppendsOfObject(obj, sorted) ==
  IF IsAttackPattern(obj) /\ ~IsSubTechnique(obj)
    THEN Flatten(SeqMap(
           LAMBDA phase_name :
             SeqMap(LAMBDA tactic : <<tactic.id, OrgTechnique(obj)>>,
                    SelectSeq(sorted, LAMBDA tactic : PhaseMatches(phase_name, tactic))),
           obj.kill_chain_phases))
    ELSE << >>

\* techniques_by_tactic as a defaultdict(list): a key exists once appended to
GroupAppends(appends) ==
  [k \in {appends[i][1] : i \in 1..Len(appends)} |->
     SeqMap(LAMBDA p : p[2], SelectSeq(appends, LAMBDA p : p[1] = k))]

RECURSIVE AllOrgTechniques(_)
AllOrgTechniques(objs) ==
  IF objs = << >> THEN << >>
  ELSE IF IsAttackPattern(Head(objs)) /\ ~IsSubTechnique(Head(objs))
    THEN <<OrgTechnique(Head(objs))>> \o AllOrgTechniques(Tail(objs))
    ELSE AllOrgTechniques(Tail(objs))

\* mitre_mapping_app.organize_techniques_by_tactic
organize_techniques_by_tactic(doc, sorted) ==
  [techniques_by_tactic |->
     GroupAppends(Flatten(SeqMap(LAMBDA obj : AppendsOfObject(obj, sorted), doc.objects))),
   all_techniques |-> AllOrgTechniques(doc.objects)]

\* navigator_visualization.organize_techniques_by_tactic
nav_organize_techniques_by_tactic(doc, sorted) ==
  [techniques_by_tactic |->
     GroupAppends(Flatten(SeqMap(LAMBDA obj : AppendsOfObject(obj, sorted), doc.objects))),
   all_techniques |-> AllOrgTechniques(doc.objects)]

\* heatmap_renderer.load_mitre_data: the fetch, the ordering and the grouping in
\* one try block; ([], {}, []) when anything raised
heatmap_load_mitre_data(doc) ==
  IF ~doc.fetched
       \/ \E i \in 1..Len(doc.objects) :
            /\ IsTactic(doc.objects[i]) \/ IsAttackPattern(doc.objects[i])
            /\ RaisesIndexError(doc.objects[i])
    THEN [sorted_tactics |-> << >>, techniques_by_tactic |-> << >>,
          all_techniques |-> << >>]
    ELSE LET sorted == SortByKillChain(kill_chain_order,
                                       TacticsByShortname(doc.objects))
         IN  [sorted_tactics |-> sorted,
              techniques_by_tactic |->
                GroupAppends(Flatten(SeqMap(
                  LAMBDA obj : AppendsOfObject(obj, sorted), doc.objects))),
              all_techniques |-> AllOrgTechniques(doc.objects)]

----------------------------------------------------------------------------
(* Colour buckets.  The code compares count with max_count * 0.8, * 0.6,   *)
(* * 0.4 and * 0.2 in double precision; for integer count and max_count up *)
(* to 20000 each comparison has the value of the exact one (count * 5      *)
(* against max_count * 4, 3, 2, 1), which is what is written here.         *)

\* the thresholds taken as absolute numbers, not scaled by max_count
get_severity_color_unscaled(count, max_count) ==
  IF count = 0 THEN "#ffffff"
  ELSE IF count * 5 >= 4 THEN "#ff6666"
  ELSE IF count * 5 >= 3 THEN "#ffb366"
  ELSE IF count * 5 >= 2 THEN "#ffcc66"
  ELSE IF count * 5 >= 1 THEN "#adebad"
  ELSE "#d6f5d6"

\* mitre_mapping_app.get_severity_color
get_severity_color(count, max_count) ==
  IF count = 0 THEN "#ffffff"
  ELSE IF count * 5 >= max_count * 4 THEN "#ff6666"
  ELSE IF count * 5 >= max_count * 3 THEN "#ffb366"
  ELSE IF count * 5 >= max_count * 2 THEN "#ffcc66"
  ELSE IF count * 5 >= max_count * 1 THEN "#adebad"
  ELSE "#d6f5d6"

\* the colour scale with strict thresholds: a count on a boundary falls in the
\* bucket below
heatmap_get_severity_color_strict(count, max_count) ==
  IF count = 0 THEN "#ffffff"
  ELSE IF count * 5 > max_count * 4 THEN "#ff6666"
  ELSE IF count * 5 > max_count * 3 THEN "#ffb366"
  ELSE IF count * 5 > max_count * 2 THEN "#ffcc66"
  ELSE IF count * 5 > max_count * 1 THEN "#adebad"
  ELSE "#d6f5d6"

\* heatmap_renderer.get_severity_color
heatmap_get_severity_color(count, max_count) ==
  IF count = 0 THEN "#ffffff"
  ELSE IF count * 5 >= max_count * 4 THEN "#ff6666"
  ELSE IF count * 5 >= max_count * 3 THEN "#ffb366"
  ELSE IF count * 5 >= max_count * 2 THEN "#ffcc66"
  ELSE IF count * 5 >= max_count * 1 THEN "#adebad"
  ELSE "#d6f5d6"

\* navigator_visualization.get_severity_color
nav_get_severity_color(count, max_count) ==
  IF count = 0 THEN "#ffffff"
  ELSE IF count * 5 >= max_count * 4 THEN "#ff6666"
  ELSE IF count * 5 >= max_count * 3 THEN "#ffb366"
  ELSE IF count * 5 >= max_count * 2 THEN "#ffcc66"
  ELSE IF count * 5 >= max_count * 1 THEN "#adebad"
  ELSE "#d6f5d6"

\* max(techniques_count.values()) if techniques_count else 1
MaxCountOf(tc) == IF tc = << >> THEN 1 ELSE Max(DictValues(tc))

----------------------------------------------------------------------------
(* Navigator layer.                                                        *)

\* a technique record that marks the key as present instead of counting it
LayerRecordUnit(pair) ==
  [techniqueID |-> pair[1], score |-> 1, comment |-> <<"Count", pair[2]>>]

\* {"techniqueID": tech_id, "score": count, "comment": f"Count: {count}", ...}
LayerRecord(pair) ==
  [techniqueID |-> pair[1], score |-> pair[2], comment |-> <<"Count", pair[2]>>]

\* the empty layer {} returned when building the layer raised
EmptyLayer ==
  [empty |-> TRUE, name |-> "", techniques |-> << >>,
   gradient |-> [minValue |-> 0, maxValue |-> 0]]

\* mitre_mapping_app.create_navigator_layer; nothing in its try block raises for
\* a dict of integer counts
create_navigator_layer(tc) ==
  [empty |-> FALSE,
   name |-> "Security Use Cases Mapping - <date>",
   techniques |-> SeqMap(LayerRecord, tc),
   gradient |-> [minValue |-> 0, maxValue |-> MaxCountOf(tc)]]

\* a rebuild that finds no score in the records: tech.get('score', 0) gives 0
RECURSIVE LayerCountsUnscored(_)
LayerCountsUnscored(records) ==
  IF records = << >> THEN << >>
  ELSE LET r == records[Len(records)]
       IN  DictPut(LayerCountsUnscored(SubSeq(records, 1, Len(records) - 1)),
                   r.techniqueID, 0)

\* techniques_count rebuilt from layer_json.get('techniques', [])
RECURSIVE LayerCounts(_)
LayerCounts(records) ==
  IF records = << >> THEN << >>
  ELSE LET r == records[Len(records)]
       IN  DictPut(LayerCounts(SubSeq(records, 1, Len(records) - 1)),
                   r.techniqueID, r.score)

\* render_attack_matrix, first block: the id-to-score map rebuilt from the
\* layer and the max_count derived from it
RebuiltCounts(layer_json) ==
  LET tc == LayerCounts(layer_json.techniques)
  IN  [techniques_count |-> tc, max_count |-> MaxCountOf(tc)]

\* layer_json.get('name', 'Security Use Cases Mapping')
LayerName(layer_json) ==
  IF layer_json.empty THEN "Security Use Cases Mapping" ELSE layer_json.name

----------------------------------------------------------------------------
(* str.format.  A template is the sequence of its literal pieces and its   *)
(* replacement fields; every '{' ... '}' pair of the text is a field, its  *)
(* field name the text up to ':' .  A field with an empty name takes the   *)
(* next positional argument; a field with any other (non-numeric) name is  *)
(* looked up among the keyword arguments, of which the calls pass none.    *)

Text(t) == [kind |-> "text", text |-> t]

Field(n) == [kind |-> "field", text |-> n]

\* the positional index a field with an empty name gets: its rank among them
AutoIndex(template, i) ==
  Cardinality({j \in 1..i : template[j].kind = "field" /\ template[j].text = ""})

FieldFails(template, i, args) ==
  /\ template[i].kind = "field"
  /\ IF template[i].text = "" THEN AutoIndex(template, i) > Len(args) ELSE TRUE

StrFormat(template, args) ==
  LET bad == {i \in 1..Len(template) : FieldFails(template, i, args)}
  IN  IF bad # {}
        THEN LET first == CHOOSE i \in bad : \A j \in bad : i <= j
             IN  [raised |-> TRUE,
                  exc |-> IF template[first].text = "" THEN "IndexError" ELSE "KeyError",
                  value |-> << >>]
        ELSE [raised |-> FALSE, exc |-> "",
              value |-> [i \in 1..Len(template) |->
                           IF template[i].kind = "field"
                             THEN args[AutoIndex(template, i)]
                             ELSE template[i].text]]

\* the style/markup text of mitre_mapping_app.render_attack_matrix: twelve CSS
\* rule blocks in braces, then the header's {}
AppTemplate ==
  << Text("<style> .attack-matrix "), Field(" font-family"),
     Text(".attack-matrix-header "), Field(" background-color"),
     Text(".tactic-row "), Field(" display"),
     Text(".tactic-header "), Field(" display"),
     Text(".techniques-container "), Field(" display"),
     Text(".technique-cell "), Field(" display"),
     Text(".technique-id "), Field(" font-weight"),
     Text(".technique-name "), Field(" font-size"),
     Text(".technique-count "), Field(" position"),
     Text(".color-legend "), Field(" display"),
     Text(".legend-item "), Field(" display"),
     Text(".legend-color "), Field(" width"),
     Text("</style> <div class=attack-matrix-header>"), Field(""),
     Text("</div> <div class=color-legend>...</div> <div class=attack-matrix>") >>

\* the same text in navigator_visualization.render_attack_matrix
NavTemplate ==
  << Text("<style> .attack-matrix "), Field(" font-family"),
     Text(".attack-matrix-header "), Field(" background-color"),
     Text(".tactic-row "), Field(" display"),
     Text(".tactic-header "), Field(" display"),
     Text(".techniques-container "), Field(" display"),
     Text(".technique-cell "), Field(" display"),
     Text(".technique-id "), Field(" font-weight"),
     Text(".technique-name "), Field(" font-size"),
     Text(".technique-count "), Field(" position"),
     Text(".color-legend "), Field(" display"),
     Text(".legend-item "), Field(" display"),
     Text(".legend-color "), Field(" width"),
     Text("</style> <div class=attack-matrix-header>"), Field(""),
     Text("</div> <div class=color-legend>...</div> <div class=attack-matrix>") >>

\* the text of heatmap_renderer.render_attack_matrix, on which format is not called
HeatmapTemplate ==
  << Text("<style> ... </style> <div class=matrix-header>MITRE ATT&CK Heat Map</div> <div class=attack-matrix>") >>

----------------------------------------------------------------------------
(* Matrix renderer.                                                        *)

\* html.escape(s)
HtmlEscape(s) ==
  Flatten(SeqMap(
    LAMBDA c : IF c = "&" THEN <<"&", "a", "m", "p", ";">>
               ELSE IF c = "<" THEN <<"&", "l", "t", ";">>
               ELSE IF c = ">" THEN <<"&", "g", "t", ";">>
               ELSE IF c = "\"" THEN <<"&", "q", "u", "o", "t", ";">>
               ELSE IF c = "'" THEN <<"&", "#", "x", "2", "7", ";">>
               ELSE <<c>>,
    s))

\* techniques_by_tactic.get(tactic_id, [])
TechList(by_tactic, tactic_id) ==
  IF tactic_id \in DOMAIN by_tactic THEN by_tactic[tactic_id] ELSE << >>

\* the get_severity_color each file's renderer calls: its own copy
SeverityColor(file, count, max_count) ==
  IF file = "heatmap_renderer" THEN heatmap_get_severity_color(count, max_count)
  ELSE IF file = "navigator_visualization" THEN nav_get_severity_color(count, max_count)
  ELSE get_severity_color(count, max_count)

\* one technique-cell
Cell(tech, tc, max_count, file) ==
  LET count == DictGet(tc, tech.id, 0)
  IN  [id |-> tech.id, name |-> HtmlEscape(tech.name),
       color |-> SeverityColor(file, count, max_count), count |-> count,
       badge |-> count > 0]

\* for tactic in sorted_tactics: one tactic-row with a cell per listed technique
MatrixRows(sorted, by_tactic, tc, max_count, file) ==
  SeqMap(LAMBDA tactic :
           [tactic_id |-> tactic.id, tactic_name |-> tactic.name,
            cells |-> SeqMap(LAMBDA tech : Cell(tech, tc, max_count, file),
                             TechList(by_tactic, tactic.id))],
         sorted)

Raised(exc) ==
  [raised |-> TRUE, exc |-> exc, placeholder |-> FALSE, head |-> << >>, rows |-> << >>]

Markup(head, rows) ==
  [raised |-> FALSE, exc |-> "", placeholder |-> FALSE, head |-> head, rows |-> rows]

\* "<div>Error loading MITRE ATT&CK data</div>"
ErrorPlaceholder ==
  [raised |-> FALSE, exc |-> "", placeholder |-> TRUE, head |-> << >>, rows |-> << >>]

\* mitre_mapping_app.render_attack_matrix(layer_json, attack_data)
render_attack_matrix(layer_json, doc) ==
  LET tc == LayerCounts(layer_json.techniques)
      max_count == MaxCountOf(tc)
      sorted == load_tactics_data(doc)
      org == organize_techniques_by_tactic(doc, sorted)
      head == StrFormat(AppTemplate, <<LayerName(layer_json)>>)
  IN  IF head.raised THEN Raised(head.exc)
      ELSE Markup(head.value,
                  MatrixRows(sorted, org.techniques_by_tactic, tc, max_count,
                             "mitre_mapping_app"))

\* navigator_visualization.render_attack_matrix(layer_json, attack_data)
nav_render_attack_matrix(layer_json, doc) ==
  LET tc == LayerCounts(layer_json.techniques)
      max_count == MaxCountOf(tc)
      sorted == nav_load_tactics_data(doc)
      org == nav_organize_techniques_by_tactic(doc, sorted)
      head == StrFormat(NavTemplate, <<LayerName(layer_json)>>)
  IN  IF head.raised THEN Raised(head.exc)
      ELSE Markup(head.value,
                  MatrixRows(sorted, org.techniques_by_tactic, tc, max_count,
                             "navigator_visualization"))

\* heatmap_renderer.render_attack_matrix(techniques_count); doc is what its
\* load_mitre_data() fetches
heatmap_render_attack_matrix(tc, doc) ==
  LET loaded == heatmap_load_mitre_data(doc)
      max_count == MaxCountOf(tc)
  IN  IF loaded.sorted_tactics = << >> THEN ErrorPlaceholder
      ELSE Markup(SeqMap(LAMBDA p : p.text, HeatmapTemplate),
                  MatrixRows(loaded.sorted_tactics, loaded.techniques_by_tactic,
                             tc, max_count, "heatmap_renderer"))

----------------------------------------------------------------------------
(* Embedding and matching.  The embedding model and the cosine similarity  *)
(* are third-party code: whether encode raises, and the scores, are inputs. *)

NoTensor == [none |-> TRUE, rows |-> 0]

Tensor(n) == [none |-> FALSE, rows |-> n]

\* mitre_mapping_app.get_mitre_embeddings
get_mitre_embeddings(m, techs, encode_raises) ==
  IF m = "None" \/ techs = << >> THEN NoTensor
  ELSE IF encode_raises THEN NoTensor
  ELSE Tensor(Len(techs))

\* the score vectors cos_sim can return against a tensor of n rows
ScoreVectors(n) == [1..n -> 0..1]

\* a description, as what model.encode and util.cos_sim make of it: encode
\* raises, or cos_sim returns these scores
NoDescription == [encode_raises |-> FALSE, scores |-> << >>]

Descriptions(n) ==
  { [encode_raises |-> b, scores |-> s] : b \in BOOLEAN, s \in ScoreVectors(n) }

\* an argmax that returns the last index holding the maximum
ArgMaxLast(scores) ==
  CHOOSE i \in 1..Len(scores) :
    /\ \A j \in 1..Len(scores) : scores[j] <= scores[i]
    /\ \A j \in (i + 1)..Len(scores) : scores[j] < scores[i]

\* scores.argmax().item(): the first index holding the maximum
ArgMax(scores) ==
  CHOOSE i \in 1..Len(scores) :
    /\ \A j \in 1..Len(scores) : scores[j] <= scores[i]
    /\ \A j \in 1..(i - 1) : scores[j] < scores[i]

s_sep == <<" ", "-", " ">>

\* f"{best_tech['id']} - {best_tech['name']}"
Label(tech) == tech.id \o s_sep \o tech.name

SentinelNA ==
  [tactic |-> s_NA, technique |-> s_NA, reference |-> s_NA, tactics_list |-> << >>]

SentinelError ==
  [tactic |-> s_Error, technique |-> s_Error, reference |-> s_Error,
   tactics_list |-> << >>]

\* map_to_mitre with its first test requiring both to be None
map_to_mitre_both_none(m, techs, embeddings, encode_raises, scores) ==
  IF m = "None" /\ embeddings.none THEN SentinelNA
  ELSE IF encode_raises \/ Len(scores) = 0 THEN SentinelError
  ELSE LET best_match_idx == ArgMax(scores)
       IN  IF best_match_idx > Len(techs) THEN SentinelError
           ELSE LET best_tech == techs[best_match_idx]
                IN  [tactic |-> best_tech.tactic, technique |-> Label(best_tech),
                     reference |-> best_tech.url,
                     tactics_list |-> best_tech.tactics_list]

\* map_to_mitre whose except branch returns the "N/A" sentinel
map_to_mitre_na_on_error(m, techs, embeddings, encode_raises, scores) ==
  IF m = "None" \/ embeddings.none THEN SentinelNA
  ELSE IF encode_raises \/ Len(scores) = 0 THEN SentinelNA
  ELSE LET best_match_idx == ArgMax(scores)
       IN  IF best_match_idx > Len(techs) THEN SentinelNA
           ELSE LET best_tech == techs[best_match_idx]
                IN  [tactic |-> best_tech.tactic, technique |-> Label(best_tech),
                     reference |-> best_tech.url,
                     tactics_list |-> best_tech.tactics_list]

\* map_to_mitre whose except branch marks the label only
map_to_mitre_error_label_only(m, techs, embeddings, encode_raises, scores) ==
  IF m = "None" \/ embeddings.none THEN SentinelNA
  ELSE IF encode_raises \/ Len(scores) = 0 THEN [SentinelNA EXCEPT !.technique = s_Error]
  ELSE LET best_match_idx == ArgMax(scores)
       IN  IF best_match_idx > Len(techs) THEN SentinelError
           ELSE LET best_tech == techs[best_match_idx]
                IN  [tactic |-> best_tech.tactic, technique |-> Label(best_tech),
                     reference |-> best_tech.url,
                     tactics_list |-> best_tech.tactics_list]

\* mitre_mapping_app.map_to_mitre; argmax of an empty tensor and an index past
\* the list raise inside the try block
map_to_mitre(m, techs, embeddings, encode_raises, scores) ==
  IF m = "None" \/ embeddings.none THEN SentinelNA
  ELSE IF encode_raises \/ Len(scores) = 0 THEN SentinelError
  ELSE LET best_match_idx == ArgMax(scores)
       IN  IF best_match_idx > Len(techs) THEN SentinelError
           ELSE LET best_tech == techs[best_match_idx]
                IN  [tactic |-> best_tech.tactic, technique |-> Label(best_tech),
                     reference |-> best_tech.url,
                     tactics_list |-> best_tech.tactics_list]

\* the tally update without its guard on the label
CountTechniqueUnguarded(tc, technique) ==
  LET tech_id == Strip(SplitFirst(technique, "-"))
  IN  DictPut(tc, tech_id, DictGet(tc, tech_id, 0) + 1)

\* main(): if '-' in technique: tech_id = technique.split('-')[0].strip();
\*         techniques_count[tech_id] = techniques_count.get(tech_id, 0) + 1
CountTechnique(tc, technique) ==
  IF Contains(technique, "-")
    THEN LET tech_id == Strip(SplitFirst(technique, "-"))
         IN  DictPut(tc, tech_id, DictGet(tc, tech_id, 0) + 1)
    ELSE tc

\* a column test that accepts any spelling of the name
RequiredColAnyCase(columns) ==
  IF "Description" \in columns THEN "Description"
  ELSE IF "description" \in columns THEN "description"
  ELSE IF "DESCRIPTION" \in columns THEN "DESCRIPTION"
  ELSE "None"

\* main(): 'Description' if present, else 'description' if present, else None
RequiredCol(columns) ==
  IF "Description" \in columns THEN "Description"
  ELSE IF "description" \in columns THEN "description"
  ELSE "None"

----------------------------------------------------------------------------
(* main(): one top-to-bottom pass of the script.                           *)

ColumnSets ==
  { {"Name", "Description"}, {"Name", "description"},
    {"Description", "description"}, {"Name"}, {"Name", "DESCRIPTION"} }

AppendedColumns ==
  { "Mapped MITRE Tactic(s)", "Mapped MITRE Technique(s)/Sub-techniques",
    "Reference Resource(s)" }

NoTable == [columns |-> {}, nrows |-> 0]

\* a cache entry: empty, or holding what the decorated function returned
NoEntry(default) == [hit |-> FALSE, value |-> default]

Entry(value) == [hit |-> TRUE, value |-> value]

\* load_mitre_data: return [], {}, {}
FailedLoad == [failed |-> TRUE, techniques |-> << >>, attack_data |-> NoDoc]

\* the caches of a new session; get_mitre_embeddings is keyed by its techniques
\* argument (_model is left out of the key)
EmptyCache ==
  [load_model |-> NoEntry("None"),
   load_mitre_data |-> NoEntry(FailedLoad),
   get_mitre_embeddings |-> [key |-> << >>, entry |-> NoEntry(NoTensor)]]

\* a decorator that runs the body on every call
CachedNever(entry, fresh) == fresh

\* @st.cache_resource / @st.cache_data: the stored value on a hit, else the
\* value the body returns
Cached(entry, fresh) == IF entry.hit THEN entry.value ELSE fresh

\* the entry of get_mitre_embeddings for this techniques argument
EmbeddingsEntry(techs) ==
  IF cache.get_mitre_embeddings.key = techs
    THEN cache.get_mitre_embeddings.entry
    ELSE NoEntry(NoTensor)

Init ==
  /\ pc = "start"
  /\ model = "None"
  /\ attack_data = NoDoc
  /\ mitre_techniques = << >>
  /\ mitre_embeddings = NoTensor
  /\ df = NoTable
  /\ required_col = "None"
  /\ tactics = << >>
  /\ techniques = << >>
  /\ references = << >>
  /\ all_tactics_lists = << >>
  /\ techniques_count = << >>
  /\ layer = EmptyLayer
  /\ sorted_tactics = << >>
  /\ techniques_by_tactic = << >>
  /\ outputs = {}
  /\ fn = "none"
  /\ result = << >>
  /\ cache = EmptyCache
  /\ uploads = 0
  /\ description = NoDescription

\* model = load_model(); if model is None: return
\* (st.error of the cached body is shown again on a hit)
LoadModel ==
  /\ pc = "start"
  /\ \E loaded \in BOOLEAN :
       LET value == Cached(cache.load_model, IF loaded THEN "model" ELSE "None")
       IN  /\ model' = value
           /\ cache' = [cache EXCEPT !.load_model = Entry(value)]
           /\ outputs' = IF value = "None"
                           THEN outputs \cup {"error: loading model"}
                           ELSE outputs
           /\ pc' = IF value = "None" THEN "done" ELSE "load_mitre_data"
  /\ UNCHANGED << attack_data, mitre_techniques, mitre_embeddings, df, required_col,
                  tactics, techniques, references, all_tactics_lists,
                  techniques_count, layer, sorted_tactics, techniques_by_tactic,
                  fn, result, uploads, description >>

\* mitre_techniques, tactic_mapping, attack_data = load_mitre_data();
\* if not mitre_techniques: return
LoadMitreData ==
  /\ pc = "load_mitre_data"
  /\ \E doc \in OrderedDocs \cup MalformedDocs \cup {NoDoc} :
       LET r == Cached(cache.load_mitre_data, load_mitre_data(doc))
       IN  /\ mitre_techniques' = r.techniques
           /\ attack_data' = r.attack_data
           /\ cache' = [cache EXCEPT !.load_mitre_data = Entry(r)]
           /\ outputs' = IF r.failed THEN outputs \cup {"error: loading MITRE data"}
                         ELSE outputs
           /\ pc' = IF r.techniques = << >> THEN "done" ELSE "get_mitre_embeddings"
  /\ UNCHANGED << model, mitre_embeddings, df, required_col, tactics, techniques,
                  references, all_tactics_lists, techniques_count, layer,
                  sorted_tactics, techniques_by_tactic, fn, result, uploads, description >>

\* mitre_embeddings = get_mitre_embeddings(model, mitre_techniques);
\* if mitre_embeddings is None: return
GetMitreEmbeddings ==
  /\ pc = "get_mitre_embeddings"
  /\ \E encode_raises \in BOOLEAN :
       LET e == Cached(EmbeddingsEntry(mitre_techniques),
                       get_mitre_embeddings(model, mitre_techniques, encode_raises))
       IN  /\ mitre_embeddings' = e
           /\ cache' = [cache EXCEPT !.get_mitre_embeddings =
                                       [key |-> mitre_techniques, entry |-> Entry(e)]]
           /\ outputs' = IF e.none
                           THEN outputs \cup {"error: computing embeddings"}
                           ELSE outputs
           /\ pc' = IF e.none THEN "done" ELSE "file_uploader"
  /\ UNCHANGED << model, attack_data, mitre_techniques, df, required_col, tactics,
                  techniques, references, all_tactics_lists, techniques_count,
                  layer, sorted_tactics, techniques_by_tactic, fn, result, uploads, description >>

\* uploaded_file is None: the pass ends with nothing to process
NoUpload ==
  /\ pc = "file_uploader"
  /\ pc' = "done"
  /\ UNCHANGED << model, attack_data, mitre_techniques, mitre_embeddings, df,
                  required_col, tactics, techniques, references, all_tactics_lists,
                  techniques_count, layer, sorted_tactics, techniques_by_tactic,
                  outputs, fn, result, cache, uploads, description >>

\* pd.read_csv raises: except Exception as e: st.exception(e)
ReadCsvFails ==
  /\ pc = "file_uploader"
  /\ uploads < MaxUploads
  /\ uploads' = uploads + 1
  /\ outputs' = outputs \cup {"exception"}
  /\ pc' = "done"
  /\ UNCHANGED << model, attack_data, mitre_techniques, mitre_embeddings, df,
                  required_col, tactics, techniques, references, all_tactics_lists,
                  techniques_count, layer, sorted_tactics, techniques_by_tactic,
                  fn, result, cache, description >>

\* df = pd.read_csv(uploaded_file); st.dataframe(df.head()); required_col = ...;
\* if not required_col: st.error(...); return; else the lists and the tally start empty
ReadCsv ==
  /\ pc = "file_uploader"
  /\ uploads < MaxUploads
  /\ uploads' = uploads + 1
  /\ \E columns \in ColumnSets, n \in 0..MaxRows :
       LET col == RequiredCol(columns)
       IN  /\ df' = [columns |-> columns, nrows |-> n]
           /\ required_col' = col
           /\ outputs' = IF col = "None"
                           THEN outputs \cup {"CSV Structure", "error: no Description column"}
                           ELSE outputs \cup {"CSV Structure"}
           /\ pc' = IF col = "None" THEN "done" ELSE "mapping"
  /\ tactics' = << >>
  /\ techniques' = << >>
  /\ references' = << >>
  /\ all_tactics_lists' = << >>
  /\ techniques_count' = << >>
  /\ UNCHANGED << model, attack_data, mitre_techniques, mitre_embeddings, layer,
                  sorted_tactics, techniques_by_tactic, fn, result, cache, description >>

\* one iteration of: for _, row in df.iterrows()
MapRow ==
  /\ pc = "mapping"
  /\ Len(techniques) < df.nrows
  /\ \E encode_raises \in BOOLEAN, scores \in ScoreVectors(mitre_embeddings.rows) :
       LET r == map_to_mitre(model, mitre_techniques, mitre_embeddings,
                             encode_raises, scores)
       IN  /\ tactics' = Append(tactics, r.tactic)
           /\ techniques' = Append(techniques, r.technique)
           /\ references' = Append(references, r.reference)
           /\ all_tactics_lists' = Append(all_tactics_lists, r.tactics_list)
           /\ techniques_count' = CountTechnique(techniques_count, r.technique)
           /\ outputs' = IF r = SentinelError
                           THEN outputs \cup {"error: mapping to MITRE"}
                           ELSE outputs
  /\ UNCHANGED << pc, model, attack_data, mitre_techniques, mitre_embeddings, df,
                  required_col, layer, sorted_tactics, techniques_by_tactic,
                  fn, result, cache, uploads, description >>

\* after the loop: the three columns are assigned, the table is shown and the
\* CSV download is offered
ShowResults ==
  /\ pc = "mapping"
  /\ Len(techniques) = df.nrows
  /\ df' = [df EXCEPT !.columns = @ \cup AppendedColumns]
  /\ outputs' = outputs \cup {"Mapping complete!", "Download Results as CSV"}
  /\ pc' = "coverage"
  /\ UNCHANGED << model, attack_data, mitre_techniques, mitre_embeddings,
                  required_col, tactics, techniques, references, all_tactics_lists,
                  techniques_count, layer, sorted_tactics, techniques_by_tactic,
                  fn, result, cache, uploads, description >>

\* the coverage pie chart
CoverageOverview ==
  /\ pc = "coverage"
  /\ outputs' = outputs \cup {"MITRE Coverage"}
  /\ pc' = "navigator"
  /\ UNCHANGED << model, attack_data, mitre_techniques, mitre_embeddings, df,
                  required_col, tactics, techniques, references, all_tactics_lists,
                  techniques_count, layer, sorted_tactics, techniques_by_tactic,
                  fn, result, cache, uploads, description >>

\* create_navigator_layer, then the three tabs in order: the matrix
\* (display_attack_navigator), the layer JSON, the layer download.  An exception
\* raised by the first tab leaves the try block: st.exception(e).
Navigator ==
  /\ pc = "navigator"
  /\ LET layer_obj == create_navigator_layer(techniques_count)
         sorted == load_tactics_data(attack_data)
         matrix == render_attack_matrix(layer_obj, attack_data)
     IN  /\ layer' = layer_obj
         /\ sorted_tactics' = sorted
         /\ techniques_by_tactic' =
              organize_techniques_by_tactic(attack_data, sorted).techniques_by_tactic
         /\ fn' = "render_attack_matrix"
         /\ result' = matrix
         /\ outputs' = IF matrix.raised
                         THEN outputs \cup {"exception"}
                         ELSE outputs \cup {"Interactive Matrix", "Layer JSON",
                                            "Download Navigator Layer JSON"}
  /\ pc' = "done"
  /\ UNCHANGED << model, attack_data, mitre_techniques, mitre_embeddings, df,
                  required_col, tactics, techniques, references, all_tactics_lists,
                  techniques_count, cache, uploads, description >>

\* the script is run again from the top (a new upload or any other widget
\* event): main()'s locals and the page start afresh, the caches stay
Rerun ==
  /\ pc = "done"
  /\ pc' = "start"
  /\ model' = "None"
  /\ attack_data' = NoDoc
  /\ mitre_techniques' = << >>
  /\ mitre_embeddings' = NoTensor
  /\ df' = NoTable
  /\ required_col' = "None"
  /\ tactics' = << >>
  /\ techniques' = << >>
  /\ references' = << >>
  /\ all_tactics_lists' = << >>
  /\ techniques_count' = << >>
  /\ layer' = EmptyLayer
  /\ sorted_tactics' = << >>
  /\ techniques_by_tactic' = << >>
  /\ outputs' = {}
  /\ fn' = "none"
  /\ result' = << >>
  /\ UNCHANGED << cache, uploads, description >>

Next ==
  \/ LoadModel
  \/ LoadMitreData
  \/ GetMitreEmbeddings
  \/ NoUpload
  \/ ReadCsvFails
  \/ ReadCsv
  \/ MapRow
  \/ ShowResults
  \/ CoverageOverview
  \/ Navigator
  \/ Rerun

Spec == Init /\ [][Next]_vars

----------------------------------------------------------------------------
(* Function-level specifications: the inputs are drawn in the initial      *)
(* state, one action applies one function and records what it returned.    *)

Locals ==
  /\ df = NoTable
  /\ required_col = "None"
  /\ tactics = << >>
  /\ techniques = << >>
  /\ references = << >>
  /\ all_tactics_lists = << >>
  /\ layer = EmptyLayer
  /\ sorted_tactics = << >>
  /\ techniques_by_tactic = << >>
  /\ outputs = {}
  /\ fn = "none"
  /\ result = << >>
  /\ cache = EmptyCache
  /\ uploads = 0

Returns(name, value) ==
  /\ pc = "call"
  /\ pc' = "returned"
  /\ fn' = name
  /\ result' = value
  /\ UNCHANGED << model, attack_data, mitre_techniques, mitre_embeddings, df,
                  required_col, tactics, techniques, references, all_tactics_lists,
                  techniques_count, layer, sorted_tactics, techniques_by_tactic,
                  outputs, cache, uploads, description >>

\* the tally of the worked example: {"T1059": 3, "T1566": 1}
ExampleTally == << <<s_T1059, 3>>, <<s_T1566, 1>> >>

\* tallies handed to the renderers
RenderTallies == { << >>, ExampleTally, << <<s_T_9, 1>> >> }

(* Taxonomy and rendering functions over every document.                   *)
InitTaxonomy ==
  /\ pc = "call"
  /\ model = "model"
  /\ attack_data \in AllDocs \cup MalformedDocs \cup {NoDoc}
  /\ mitre_techniques = << >>
  /\ mitre_embeddings = NoTensor
  /\ techniques_count \in RenderTallies
  /\ description = NoDescription
  /\ Locals

CallLoadMitreData ==
  Returns("load_mitre_data", load_mitre_data(attack_data))

CallLoadTactics ==
  /\ ~load_mitre_data(attack_data).failed
  /\ Returns("load_tactics_data", load_tactics_data(attack_data))

CallNavLoadTactics ==
  /\ ~load_mitre_data(attack_data).failed
  /\ Returns("nav.load_tactics_data", nav_load_tactics_data(attack_data))

CallHeatmapLoad ==
  Returns("heatmap.load_mitre_data", heatmap_load_mitre_data(attack_data))

CallOrganize ==
  /\ ~load_mitre_data(attack_data).failed
  /\ Returns("organize_techniques_by_tactic",
             organize_techniques_by_tactic(attack_data, load_tactics_data(attack_data)))

CallNavOrganize ==
  /\ ~load_mitre_data(attack_data).failed
  /\ Returns("nav.organize_techniques_by_tactic",
             nav_organize_techniques_by_tactic(attack_data,
                                               nav_load_tactics_data(attack_data)))

CallRender ==
  /\ ~load_mitre_data(attack_data).failed
  /\ Returns("render_attack_matrix",
             render_attack_matrix(create_navigator_layer(techniques_count), attack_data))

CallNavRender ==
  /\ ~load_mitre_data(attack_data).failed
  /\ Returns("nav.render_attack_matrix",
             nav_render_attack_matrix(create_navigator_layer(techniques_count),
                                      attack_data))

CallHeatmapRender ==
  Returns("heatmap.render_attack_matrix",
          heatmap_render_attack_matrix(techniques_count, attack_data))

NextTaxonomy ==
  \/ CallLoadMitreData
  \/ CallLoadTactics
  \/ CallNavLoadTactics
  \/ CallHeatmapLoad
  \/ CallOrganize
  \/ CallNavOrganize
  \/ CallRender
  \/ CallNavRender
  \/ CallHeatmapRender

SpecTaxonomy == InitTaxonomy /\ [][NextTaxonomy]_vars

(* The script and the library functions together: a pass of main(), or one  *)
(* call of a taxonomy or rendering function.                               *)
InitAll == Init \/ InitTaxonomy

NextAll == Next \/ NextTaxonomy

SpecAll == InitAll /\ [][NextAll]_vars

(* The colour function over tallies, as the renderers call it:             *)
(* count = techniques_count.get(tech_id, 0), max_count = the largest count. *)
SeverityIds == <<s_T1059, s_T1566>>

SeverityTallies ==
  { SeqFilter(<< <<s_T1059, c[1]>>, <<s_T1566, c[2]>> >>,
              { <<s_T1059, n>> : n \in 1..MaxCount } \cup
              { <<s_T1566, n>> : n \in 1..MaxCount }) :
      c \in (0..MaxCount) \X (0..MaxCount) }

InitSeverity ==
  /\ pc = "call"
  /\ model = "model"
  /\ attack_data = NoDoc
  /\ mitre_techniques = << >>
  /\ mitre_embeddings = NoTensor
  /\ techniques_count \in SeverityTallies
  /\ description = NoDescription
  /\ Locals

Coloured(tech_id, file) ==
  LET count == DictGet(techniques_count, tech_id, 0)
      max_count == MaxCountOf(techniques_count)
  IN  [tech_id |-> tech_id, count |-> count, max_count |-> max_count,
       color |-> SeverityColor(file, count, max_count)]

CallSeverity ==
  \E i \in 1..Len(SeverityIds) :
    Returns("get_severity_color", Coloured(SeverityIds[i], "mitre_mapping_app"))

CallHeatmapSeverity ==
  \E i \in 1..Len(SeverityIds) :
    Returns("heatmap.get_severity_color",
            Coloured(SeverityIds[i], "heatmap_renderer"))

CallNavSeverity ==
  \E i \in 1..Len(SeverityIds) :
    Returns("nav.get_severity_color",
            Coloured(SeverityIds[i], "navigator_visualization"))

NextSeverity ==
  \/ CallSeverity
  \/ CallHeatmapSeverity
  \/ CallNavSeverity

SpecSeverity == InitSeverity /\ [][NextSeverity]_vars

(* The layer round trip: create_navigator_layer builds the layer from a   *)
(* tally, then render_attack_matrix rebuilds its counts from the layer; a   *)
(* render without a built layer gets the {} of the except branch.          *)
InitLayer ==
  /\ pc = "call"
  /\ model = "model"
  /\ attack_data = NoDoc
  /\ mitre_techniques = << >>
  /\ mitre_embeddings = NoTensor
  /\ techniques_count \in SeverityTallies
  /\ description = NoDescription
  /\ Locals

CallCreateLayer ==
  /\ pc = "call"
  /\ pc' = "layer"
  /\ layer' = create_navigator_layer(techniques_count)
  /\ fn' = "create_navigator_layer"
  /\ UNCHANGED << model, attack_data, mitre_techniques, mitre_embeddings, df,
                  required_col, tactics, techniques, references, all_tactics_lists,
                  techniques_count, sorted_tactics, techniques_by_tactic, outputs,
                  result, cache, uploads, description >>

RenderRebuilds(name) ==
  /\ pc \in {"call", "layer"}
  /\ pc' = "returned"
  /\ fn' = name
  /\ result' = RebuiltCounts(layer)
  /\ UNCHANGED << model, attack_data, mitre_techniques, mitre_embeddings, df,
                  required_col, tactics, techniques, references, all_tactics_lists,
                  techniques_count, layer, sorted_tactics, techniques_by_tactic,
                  outputs, cache, uploads, description >>

CallRenderRebuild == RenderRebuilds("render_attack_matrix: techniques_count")

CallNavRenderRebuild == RenderRebuilds("nav.render_attack_matrix: techniques_count")

NextLayer ==
  \/ CallCreateLayer
  \/ CallRenderRebuild
  \/ CallNavRenderRebuild

SpecLayer == InitLayer /\ [][NextLayer]_vars

(* map_to_mitre over every model, technique list and embeddings that       *)
(* load_model, load_mitre_data and get_mitre_embeddings can return.        *)
TechniqueLists == { load_mitre_data(doc).techniques : doc \in AllDocs }

InitMatch ==
  /\ pc = "call"
  /\ model \in {"None", "model"}
  /\ attack_data = NoDoc
  /\ mitre_techniques \in TechniqueLists
  /\ mitre_embeddings \in
       {get_mitre_embeddings(model, mitre_techniques, r) : r \in BOOLEAN}
  /\ techniques_count = << >>
  /\ description \in Descriptions(mitre_embeddings.rows)
  /\ Locals

CallMapToMitre ==
  Returns("map_to_mitre",
          map_to_mitre(model, mitre_techniques, mitre_embeddings,
                       description.encode_raises, description.scores))

NextMatch == CallMapToMitre

SpecMatch == InitMatch /\ [][NextMatch]_vars

----------------------------------------------------------------------------
(* Properties.                                                             *)

IsSentinel(technique) == technique \in {s_NA, s_Error}

Matched == {i \in 1..Len(techniques) : ~IsSentinel(techniques[i])}

Artifacts ==
  { "Download Results as CSV", "Interactive Matrix", "Layer JSON",
    "Download Navigator Layer JSON" }

\* C1: at every point of the mapping loop, hence once it has finished, the
\* values of techniques_count sum to the number of records mapped so far whose
\* label is neither the "N/A" nor the "Error" sentinel.
C1_TallySumsToMatched ==
  DictSum(techniques_count) = Cardinality(Matched)

\* C1 witness: the loop has finished over two records, one matched and one failed.
C1_Witness ==
  /\ pc = "coverage"
  /\ Len(techniques) = 2
  /\ Cardinality(Matched) = 1
  /\ DictSum(techniques_count) = 1

\* C10: a table with neither a Description nor a description column ends the
\* pass with the error reported, no record matched, an empty tally, no column
\* appended and no artifact offered.
C10_NoColumnNoProcessing ==
  (df # NoTable /\ "Description" \notin df.columns /\ "description" \notin df.columns)
    => /\ pc = "done"
       /\ "error: no Description column" \in outputs
       /\ tactics = << >> /\ techniques = << >> /\ references = << >>
       /\ all_tactics_lists = << >>
       /\ techniques_count = << >>
       /\ df.columns \cap AppendedColumns = {}
       /\ outputs \cap Artifacts = {}
       /\ "Mapping complete!" \notin outputs

\* C10 witness: a table with rows and only a DESCRIPTION column was uploaded.
C10_Witness ==
  /\ pc = "done"
  /\ df.columns = {"Name", "DESCRIPTION"}
  /\ df.nrows = MaxRows
  /\ "error: no Description column" \in outputs

TaxonomyIds == {mitre_techniques[i].id : i \in 1..Len(mitre_techniques)}

\* C6 (as claimed): at every point of the mapping loop every key of
\* techniques_count is the id of an entry of the loaded technique list and
\* every value is an integer >= 1, whatever id and name strings the taxonomy holds.
C6_KeysAreTaxonomyIds ==
  \A k \in DictKeys(techniques_count) :
    /\ k \in TaxonomyIds
    /\ DictGet(techniques_count, k, 0) \in Nat
    /\ DictGet(techniques_count, k, 0) >= 1

HasDot(id) == Contains(id, ".")

GroupedIds ==
  UNION { {tech.id : tech \in Range(techniques_by_tactic[k])} :
            k \in DOMAIN techniques_by_tactic }

\* C9: no id containing a dot is in the technique list returned by
\* load_mitre_data, in the techniques_by_tactic grouping, or among the keys of
\* techniques_count.
C9_NoSubTechniques ==
  /\ \A id \in TaxonomyIds : ~HasDot(id)
  /\ \A id \in GroupedIds : ~HasDot(id)
  /\ \A k \in DictKeys(techniques_count) : ~HasDot(k)

\* C9 witness: the document held a sub-technique, and the pass ended with a
\* non-empty technique list, a non-empty grouping and a non-empty tally.
C9_Witness ==
  /\ pc = "done"
  /\ \E i \in 1..Len(attack_data.objects) : attack_data.objects[i] = TechSub
  /\ GroupedIds # {}
  /\ techniques_count # << >>

\* C5 (as claimed): a pass whose mapping loop completed ends with all the
\* output artifacts offered: the CSV download, the rendered matrix, the layer
\* JSON and its download button.
C5_AllArtifactsOffered ==
  (pc = "done" /\ "Mapping complete!" \in outputs) => Artifacts \subseteq outputs

SeverityFns ==
  {"get_severity_color", "heatmap.get_severity_color", "nav.get_severity_color"}

\* C2 (as claimed): for the tally {"T1059": 3, "T1566": 1} (max count 3) the
\* colour function puts T1059 in the highest bucket #ff6666 and T1566 in the
\* lowest non-zero bucket #d6f5d6 ('Very Low').
C2_ExampleLowestBucket ==
  (fn \in SeverityFns /\ techniques_count = ExampleTally)
    => /\ result.tech_id = s_T1059 => result.color = "#ff6666"
       /\ result.tech_id = s_T1566 => result.color = "#d6f5d6"

\* C2 (amended): for the tally {"T1059": 3, "T1566": 1} (max count 3) every
\* copy of the colour function puts T1059 (count 3) in the highest bucket
\* #ff6666 and T1566 (count 1, a third of the maximum) in the 'Low' bucket
\* #adebad, the second-lowest non-zero one.
C2_ExampleBuckets ==
  (fn \in SeverityFns /\ techniques_count = ExampleTally)
    => /\ result.max_count = 3
       /\ result.tech_id = s_T1059 => (result.count = 3 /\ result.color = "#ff6666")
       /\ result.tech_id = s_T1566 => (result.count = 1 /\ result.color = "#adebad")

\* C2 witness: the colour of T1566 under the example tally has been computed.
C2_Witness ==
  /\ fn = "get_severity_color"
  /\ techniques_count = ExampleTally
  /\ result.tech_id = s_T1566
  /\ result.color = "#adebad"

Unavailable == model = "None" \/ mitre_embeddings.none

EntryResult(tech) ==
  [tactic |-> tech.tactic, technique |-> Label(tech), reference |-> tech.url,
   tactics_list |-> tech.tactics_list]

IsEntryResult(r) ==
  \E i \in 1..Len(mitre_techniques) : r = EntryResult(mitre_techniques[i])

\* C7 (as claimed): map_to_mitre returns a label built from an entry of the
\* technique list, or the sentinel ("N/A", "N/A", "N/A", []) exactly when the
\* model or the embeddings are None; there is no other outcome.
C7_EntryOrNA ==
  fn = "map_to_mitre"
    => /\ (result = SentinelNA) <=> Unavailable
       /\ result = SentinelNA \/ IsEntryResult(result)

\* C7 (amended): map_to_mitre returns a label built from an entry of the
\* technique list, or the sentinel ("N/A", "N/A", "N/A", []) exactly when the
\* model or the embeddings are None, or the sentinel ("Error", "Error",
\* "Error", []) when the model and the embeddings are there and the matching
\* raised; there is no other outcome.
C7_EntryOrSentinel ==
  fn = "map_to_mitre"
    => /\ (result = SentinelNA) <=> Unavailable
       /\ result \in {SentinelNA, SentinelError} \/ IsEntryResult(result)
       /\ result = SentinelError => ~Unavailable

\* C7 witness: with model and embeddings present the matching raised.
C7_Witness ==
  /\ fn = "map_to_mitre"
  /\ ~Unavailable
  /\ Len(mitre_techniques) >= 2
  /\ result = SentinelError

SortedTacticsOfResult ==
  IF fn \in {"load_tactics_data", "nav.load_tactics_data"} THEN result
  ELSE IF fn = "heatmap.load_mitre_data" THEN result.sorted_tactics
  ELSE << >>

KillChainPos(shortname) ==
  CHOOSE i \in 1..Len(kill_chain_order) : kill_chain_order[i] = shortname

DocShortnames ==
  { attack_data.objects[i].x_mitre_shortname :
      i \in {j \in 1..Len(attack_data.objects) : IsTactic(attack_data.objects[j])} }

\* C8: whatever the order of the document's objects, the ordered tactic list is
\* a subsequence of the kill-chain table by shortname: every shortname is in
\* the table, positions in the table strictly increase along the list (so no
\* shortname repeats), and the list holds each table shortname of a document
\* that the loader could walk.
C8_KillChainSubsequence ==
  LET st == SortedTacticsOfResult
  IN  /\ \A i \in 1..Len(st) : st[i].shortname \in Range(kill_chain_order)
      /\ \A i, j \in 1..Len(st) :
           i < j => KillChainPos(st[i].shortname) < KillChainPos(st[j].shortname)
      /\ (/\ fn \in {"load_tactics_data", "nav.load_tactics_data",
                    "heatmap.load_mitre_data"}
          /\ attack_data \notin MalformedDocs)
           => {st[i].shortname : i \in 1..Len(st)}
                = DocShortnames \cap Range(kill_chain_order)

\* C8 witness: the document lists execution before reconnaissance, with a
\* tactic outside the table between them; the result is reconnaissance, execution.
C8_Witness ==
  /\ fn = "load_tactics_data"
  /\ attack_data.objects = <<TacExec, TacCustom, TacRecon>>
  /\ result = <<TacticData(TacRecon), TacticData(TacExec)>>

\* the ids, in document order, of the non-sub-technique entries one of whose
\* kill_chain_phases names the tactic by its shortname
EntriesOfTactic(doc, tactic) ==
  LET Ids(objs) == SeqMap(LAMBDA obj : ExternalId(obj), objs)
  IN  Ids(SelectSeq(doc.objects,
                    LAMBDA obj : /\ IsAttackPattern(obj)
                                 /\ ~IsSubTechnique(obj)
                                 /\ tactic.shortname \in Range(obj.kill_chain_phases)))

IdsOf(techs) == SeqMap(LAMBDA tech : tech.id, techs)

RenderFns ==
  {"render_attack_matrix", "nav.render_attack_matrix", "heatmap.render_attack_matrix"}

\* C3 (as claimed): every tactic row holds exactly one cell per non-sub-technique
\* entry whose kill_chain_phases name the tactic by x_mitre_shortname, and no
\* other cell; the groupings the rows are built from hold the same entries.
C3_RowsHoldTacticEntries ==
  /\ (fn \in RenderFns /\ ~result.raised /\ ~result.placeholder)
       => LET st == load_tactics_data(attack_data)
          IN  /\ Len(result.rows) = Len(st)
              /\ \A i \in 1..Len(st) :
                   IdsOf(result.rows[i].cells) = EntriesOfTactic(attack_data, st[i])
  /\ fn \in {"organize_techniques_by_tactic", "nav.organize_techniques_by_tactic"}
       => LET st == load_tactics_data(attack_data)
          IN  \A i \in 1..Len(st) :
                IdsOf(TechList(result.techniques_by_tactic, st[i].id))
                  = EntriesOfTactic(attack_data, st[i])

\* C4 (as claimed): each of the three render_attack_matrix functions returns a
\* markup string for every tally and every well-formed document; none raises.
C4_RenderNeverRaises ==
  fn \in RenderFns => ~result.raised

\* the last record mapped got one of the two sentinel labels
LastFailed(labels) == labels # << >> /\ IsSentinel(labels[Len(labels)])

\* a step of the mapping loop whose record failed leaves the tally as it was
FailedRecordLeavesTally ==
  [][(Len(techniques') = Len(techniques) + 1 /\ LastFailed(techniques'))
       => techniques_count' = techniques_count]_vars

\* C11 (as claimed): for every taxonomy, entries without an external_id
\* included, and every sequence of records, neither "N/A" nor "Error" is ever
\* a key of techniques_count.
C11_SentinelsNeverKeys ==
  /\ s_NA \notin DictKeys(techniques_count)
  /\ s_Error \notin DictKeys(techniques_count)

\* the fetch failed, or the document holds an object of unexpected shape
LoadFails(doc) == doc = NoDoc \/ doc \in MalformedDocs

\* what main() puts on the page after the taxonomy check
DownstreamOutputs ==
  { "error: computing embeddings", "CSV Structure", "error: no Description column",
    "error: mapping to MITRE", "Mapping complete!", "Download Results as CSV",
    "MITRE Coverage", "exception", "Interactive Matrix", "Layer JSON",
    "Download Navigator Layer JSON" }

\* C12: when the fetch fails or the document has an unexpected shape,
\* load_mitre_data returns the empty collections (heatmap_renderer's copy too)
\* and heatmap_renderer.render_attack_matrix returns the error placeholder with
\* no row; in main() a failed load is reported and the pass ends there: no
\* embeddings, no table, no mapped record, no tally, nothing else on the page.
C12_LoadFailureShortCircuits ==
  /\ (fn = "load_mitre_data" /\ LoadFails(attack_data))
       => result = [failed |-> TRUE, techniques |-> << >>, attack_data |-> NoDoc]
  /\ (fn = "heatmap.load_mitre_data" /\ LoadFails(attack_data))
       => /\ result.sorted_tactics = << >>
          /\ result.techniques_by_tactic = << >>
          /\ result.all_techniques = << >>
  /\ (fn = "heatmap.render_attack_matrix" /\ LoadFails(attack_data))
       => result.placeholder /\ result.rows = << >> /\ ~result.raised
  /\ (/\ pc \notin {"start", "load_mitre_data", "call", "returned"}
      /\ cache.load_mitre_data.hit
      /\ cache.load_mitre_data.value.failed)
       => /\ pc = "done"
          /\ "error: loading MITRE data" \in outputs
          /\ outputs \cap DownstreamOutputs = {}
          /\ mitre_techniques = << >>
          /\ mitre_embeddings = NoTensor
          /\ ~cache.get_mitre_embeddings.entry.hit
          /\ df = NoTable
          /\ techniques = << >>
          /\ techniques_count = << >>

\* C12 witness: a pass of main() ended right after a failed taxonomy load.
C12_Witness ==
  /\ pc = "done"
  /\ model = "model"
  /\ cache.load_mitre_data.value.failed
  /\ outputs = {"error: loading MITRE data"}
  /\ mitre_embeddings = NoTensor

\* count lies in the band [lo%, hi%) of max_count
InBand(count, max_count, lo, hi) ==
  lo * max_count <= 100 * count /\ 100 * count < hi * max_count

\* C13: for 0 <= count <= max_count, max_count >= 1, each of the three
\* get_severity_color functions returns white for count 0, and for count > 0
\* 'Very Low' below 20% of max_count, 'Low' in [20%, 40%), 'Medium' in
\* [40%, 60%), 'High' in [60%, 80%) and 'Very High' from 80% on.
C13_BucketByRatio ==
  fn \in SeverityFns
    => LET count == result.count
           max_count == result.max_count
           color == result.color
       IN  /\ 0 <= count /\ count <= max_count /\ max_count >= 1
           /\ count = 0 => color = "#ffffff"
           /\ (count > 0 /\ InBand(count, max_count, 0, 20)) => color = "#d6f5d6"
           /\ InBand(count, max_count, 20, 40) => color = "#adebad"
           /\ InBand(count, max_count, 40, 60) => color = "#ffcc66"
           /\ InBand(count, max_count, 60, 80) => color = "#ffb366"
           /\ 80 * max_count <= 100 * count => color = "#ff6666"

\* C13 witness: heatmap_renderer's copy on a count exactly at 80% of the
\* maximum (4 of 5).
C13_Witness ==
  /\ fn = "heatmap.get_severity_color"
  /\ result.count = 4
  /\ result.max_count = 5
  /\ result.color = "#ff6666"

\* the tally the loop of main() builds from the empty dict over these labels
RECURSIVE TallyOf(_)
TallyOf(labels) ==
  IF labels = << >> THEN << >>
  ELSE CountTechnique(TallyOf(SubSeq(labels, 1, Len(labels) - 1)),
                      labels[Len(labels)])

UploadStages == {"file_uploader", "mapping", "coverage", "navigator"}

\* the per-upload results hold this upload's records only, and main() works on
\* the cached taxonomy and embeddings
PerUploadState ==
  /\ Len(tactics) = Len(techniques)
  /\ Len(references) = Len(techniques)
  /\ Len(all_tactics_lists) = Len(techniques)
  /\ Len(techniques) <= df.nrows
  /\ techniques_count = TallyOf(techniques)
  /\ pc \in UploadStages
       => /\ cache.load_mitre_data.hit
          /\ mitre_techniques = cache.load_mitre_data.value.techniques
          /\ attack_data = cache.load_mitre_data.value.attack_data
          /\ cache.get_mitre_embeddings.entry.hit
          /\ cache.get_mitre_embeddings.key = mitre_techniques
          /\ mitre_embeddings = cache.get_mitre_embeddings.entry.value

\* a step of the session: an upload starts from empty lists and an empty tally,
\* a filled cache entry is never replaced, and no step of the upload stages
\* touches the taxonomy, the embeddings or the caches
PerUploadStep ==
  /\ uploads' = uploads + 1
       => /\ techniques_count' = << >>
          /\ tactics' = << >> /\ techniques' = << >>
          /\ references' = << >> /\ all_tactics_lists' = << >>
  /\ cache.load_model.hit => cache'.load_model = cache.load_model
  /\ cache.load_mitre_data.hit => cache'.load_mitre_data = cache.load_mitre_data
  /\ cache.get_mitre_embeddings.entry.hit
       => cache'.get_mitre_embeddings = cache.get_mitre_embeddings
  /\ pc \in UploadStages
       => UNCHANGED << model, attack_data, mitre_techniques, mitre_embeddings, cache >>

\* C14: across the uploads of a session, the match results and the tally of an
\* upload come from that upload's records alone (each upload starts from empty
\* lists and an empty tally), and the taxonomy and its embeddings are loaded at
\* most once: a filled cache entry is never replaced and no upload changes them.
C14_FreshTallyCachedTaxonomy ==
  /\ []PerUploadState
  /\ [][PerUploadStep]_vars

\* C14 witness: the second upload of a session has been mapped; its tally
\* counts its single record.
C14_Witness ==
  /\ uploads = 2
  /\ pc = "coverage"
  /\ df.nrows = 1
  /\ DictSum(techniques_count) = 1

\* the technique records of the layer whose techniqueID is id
RecordsOf(id) ==
  {i \in 1..Len(layer.techniques) : layer.techniques[i].techniqueID = id}

Appended(list, next) ==
  Len(next) = Len(list) + 1 /\ SubSeq(next, 1, Len(list)) = list

\* the three column lists hold one value per record mapped so far, an "Error"
\* label goes with "Error" in the other two columns, and a pass that left the
\* loop holds one value per record of the table and has assigned the columns
ColumnsPerRecord ==
  /\ Len(tactics) = Len(techniques)
  /\ Len(references) = Len(techniques)
  /\ \A i \in 1..Len(techniques) :
       /\ techniques[i] = s_Error <=> tactics[i] = s_Error
       /\ techniques[i] = s_Error <=> references[i] = s_Error
  /\ (pc \in {"coverage", "navigator"} \/ (pc = "done" /\ required_col # "None"))
       => /\ Len(techniques) = df.nrows
          /\ AppendedColumns \subseteq df.columns
          /\ "Mapping complete!" \in outputs
  /\ "error: mapping to MITRE" \in outputs
       => \E i \in 1..Len(techniques) : techniques[i] = s_Error

\* a step of the loop appends the record's values at the end of the three
\* lists and stays in the loop; a step that reports a matching error appends
\* "Error" to all three
LoopStep ==
  /\ (pc = "mapping" /\ techniques' # techniques)
       => /\ pc' = "mapping"
          /\ Appended(tactics, tactics')
          /\ Appended(techniques, techniques')
          /\ Appended(references, references')
  /\ ("error: mapping to MITRE" \notin outputs /\ "error: mapping to MITRE" \in outputs')
       => /\ tactics'[Len(tactics')] = s_Error
          /\ techniques'[Len(techniques')] = s_Error
          /\ references'[Len(references')] = s_Error
  /\ (pc = "mapping" /\ pc' # "mapping") => pc' = "coverage"

\* C16: for every table with a description column the three appended columns
\* hold one value per record in input order; a record whose matching raised has
\* "Error" in all three; the loop goes on after it and ends only when every
\* record has its values.
C16_OneValuePerRecord ==
  /\ []ColumnsPerRecord
  /\ [][LoopStep]_vars

\* C16 witness: the first of two records raised, the second was matched, and
\* the columns were assigned.
C16_Witness ==
  /\ pc = "coverage"
  /\ df.nrows = 2
  /\ techniques[1] = s_Error /\ tactics[1] = s_Error /\ references[1] = s_Error
  /\ ~IsSentinel(techniques[2])
  /\ AppendedColumns \subseteq df.columns

\* C17: when the matching does not raise, map_to_mitre returns the entry at an
\* index whose score is the maximum of the scores, and no earlier index of the
\* taxonomy list has that score.
C17_FirstMaximum ==
  (/\ fn = "map_to_mitre"
   /\ ~Unavailable
   /\ ~description.encode_raises
   /\ description.scores # << >>)
    => \E i \in 1..Len(mitre_techniques) :
         /\ result = EntryResult(mitre_techniques[i])
         /\ \A j \in 1..Len(description.scores) :
              description.scores[j] <= description.scores[i]
         /\ \A j \in 1..(i - 1) :
              description.scores[j] < description.scores[i]

\* C17 witness: the second and third of three entries share the maximum and
\* the second is returned.
C17_Witness ==
  /\ fn = "map_to_mitre"
  /\ ~Unavailable
  /\ ~description.encode_raises
  /\ description.scores = <<0, 1, 1>>
  /\ result = EntryResult(mitre_techniques[2])

\* C19: main() is at the taxonomy load only with the model loaded, at the
\* embedding step only with, besides, a non-empty technique list, and at the
\* upload and mapping stages only with, besides, the embeddings; so every
\* record main() has mapped holds the values of a taxonomy entry or, when its
\* matching raised, the "Error" sentinel, never the "N/A" sentinel.
C19_UploadOnlyAfterLoads ==
  /\ pc \in {"load_mitre_data", "get_mitre_embeddings"} \cup UploadStages
       => model = "model" /\ cache.load_model.hit
  /\ pc \in {"get_mitre_embeddings"} \cup UploadStages
       => mitre_techniques # << >> /\ cache.load_mitre_data.hit
  /\ pc = "get_mitre_embeddings" => mitre_embeddings.none
  /\ pc \in UploadStages => ~mitre_embeddings.none
  /\ \A i \in 1..Len(techniques) :
       LET r == [tactic |-> tactics[i], technique |-> techniques[i],
                 reference |-> references[i],
                 tactics_list |-> all_tactics_lists[i]]
       IN  /\ r # SentinelNA
           /\ techniques[i] # s_NA
           /\ r = SentinelError \/ IsEntryResult(r)

\* C19 witness: with model, taxonomy and embeddings loaded, both records of an
\* upload failed and both are labelled "Error".
C19_Witness ==
  /\ pc = "coverage"
  /\ model = "model" /\ mitre_techniques # << >> /\ ~mitre_embeddings.none
  /\ techniques = <<s_Error, s_Error>>

RebuildFns ==
  {"render_attack_matrix: techniques_count",
   "nav.render_attack_matrix: techniques_count"}

\* C20: the id-to-count map render_attack_matrix rebuilds from the layer that
\* create_navigator_layer built equals the tally the layer was built from, and
\* the max_count it derives equals the layer's gradient maxValue; from the
\* empty layer the rebuilt map is empty and max_count is 1.
C20_LayerRoundTrip ==
  fn \in RebuildFns
    => IF layer.empty
         THEN result.techniques_count = << >> /\ result.max_count = 1
         ELSE /\ result.techniques_count = techniques_count
              /\ result.max_count = layer.gradient.maxValue

\* C20 witness: a tally of two keys went through the layer and came back.
C20_Witness ==
  /\ fn = "nav.render_attack_matrix: techniques_count"
  /\ ~layer.empty
  /\ techniques_count = << <<s_T1059, 2>>, <<s_T1566, MaxCount>> >>
  /\ result.techniques_count = techniques_count
  /\ result.max_count = MaxCount

====
